---- MODULE Spec2Model ----
(***************************************************************************)
(* The documentation build of ironplc: docs/conf.py reads the VERSION file *)
(* and enables the extension docs/extensions/ironplc_problemcode.py, whose *)
(* module body builds the problem-code registry (problem_infos) from two   *)
(* CSV catalogs after checking every code against the help-topic files,   *)
(* and whose directive "problem-summary" renders one code per use.         *)
(*                                                                         *)
(* Text is a sequence of one-character strings; the bytes of the VERSION   *)
(* file are numbers 0..255 and decoded text is a sequence of code points.  *)
(***************************************************************************)
EXTENDS Integers, Sequences, FiniteSets, TLC

\* ------------------------------------------------------------------ bounds
\* Data rows over both catalogs together (Spec).
MaxRows == 3
\* problem-summary directives in the documentation sources (Spec).
MaxRenders == 3
\* Files in each help-topic directory (SpecTopics).
MaxFiles == 2
\* Data rows over both catalogs together (SpecTopics).
TopicRows == 1
\* Code points in the text of the VERSION file (SpecVersion).
MaxLen == 3

VARIABLES
    VERSION,          \* conf.py: the bytes of the file VERSION
    version_text,     \* the text the VERSION file was written from
    version,          \* conf.py: version (code points)
    listing,          \* listdir() of the two help-topic directories
    files,            \* the rows csv.reader yields for each catalog path
    directive_sites,  \* number of problem-summary directives in the sources
    pc,               \* position in conf.py / the extension's module body
    help_topics,      \* ironplc_problemcode.help_topics
    problem_infos,    \* ironplc_problemcode.problem_infos (code -> message)
    definition,       \* index into definitions of the catalog being read
    problem_codes,    \* rows the csv.reader of that catalog has yielded
    stdout,           \* lines printed
    exit_status,      \* <<>> while the process runs, <<n>> after exit(n)
    directives,       \* directive names registered with the application
    renders           \* the ProblemSummary.run calls made, with their outcome

vars == <<VERSION, version_text, version, listing, files, directive_sites, pc,
          help_topics, problem_infos, definition, problem_codes, stdout,
          exit_status, directives, renders>>

\* ---------------------------------------------------------------- helpers
SeqUpTo(S, n) == UNION {[1..k -> S] : k \in 0..n}

SetMin(S) == CHOOSE x \in S : \A y \in S : x <= y

SetMax(S) == CHOOSE x \in S : \A y \in S : x >= y

\* ----------------------------------------- ironplc_problemcode.py: topics
CompilerDir == "compiler/problems"

ExtensionDir == "vscode/problems"

\* v.rsplit('.', 1)[0]: only the last extension goes
SplitLast(v) ==
    LET dots == {i \in 1..Len(v) : v[i] = "."}
    IN  IF dots = {} THEN v ELSE SubSeq(v, 1, SetMax(dots) - 1)

\* v.split('.')[0]: the text before the first '.', the whole of v without one
SplitFirst(v) ==
    LET dots == {i \in 1..Len(v) : v[i] = "."}
    IN  IF dots = {} THEN v ELSE SubSeq(v, 1, SetMin(dots) - 1)

compiler_help_topics == {SplitFirst(v) : v \in listing[CompilerDir]}

extension_help_topics == {SplitFirst(v) : v \in listing[ExtensionDir]}

\* --------------------------------------- ironplc_problemcode.py: catalogs
CompilerCsv == "../compiler/problems/resources/problem-codes.csv"

ExtensionCsv == "../integrations/vscode/resources/problem-codes.csv"

definitions == <<CompilerCsv, ExtensionCsv>>

EmptyDict == [c \in {} |-> <<>>]

\* problem_infos.setdefault(code, ProblemCode(message)): the first row wins
StoreIfAbsent(infos, code, message) ==
    [c \in DOMAIN infos \cup {code} |-> IF c \in DOMAIN infos THEN infos[c] ELSE message]

\* problem_infos[code] = ProblemCode(message)
StoreMessage(infos, code, message) ==
    [c \in DOMAIN infos \cup {code} |-> IF c = code THEN message ELSE infos[c]]

MissingPrefix ==
    <<"M", "i", "s", "s", "i", "n", "g", " ", "h", "e", "l", "p", " ",
      "t", "o", "p", "i", "c", " ", "f", "o", "r", " ">>

\* 'Missing help topic for ' + code
MissingMessage(code) == MissingPrefix \o code

\* the membership test left out
TopicNotChecked(code) == FALSE

\* code not in help_topics
MissingTopic(code) == code \notin help_topics

\* ---------------------------------------- ironplc_problemcode.py: render
CodeKey == <<"C", "o", "d", "e">>

MessageKey == <<"M", "e", "s", "s", "a", "g", "e">>

make_item(key, value) ==
    [node |-> "definition_list_item",
     children |->
        <<[node |-> "term",
           children |-> <<[node |-> "strong", text |-> key]>>],
          [node |-> "definition",
           children |-> <<[node |-> "paragraph", text |-> value]>>]>>]

\* the two items the other way round
runMessageFirst(code) ==
    IF code \in DOMAIN problem_infos
    THEN [raised |-> "",
          nodes |-> <<[node |-> "definition_list",
                       children |-> <<make_item(MessageKey, problem_infos[code]),
                                      make_item(CodeKey, code)>>]>>]
    ELSE [raised |-> "KeyError", nodes |-> <<>>]

\* problem_infos.get(code, ProblemCode('')): an empty message for a code
\* that is not in the registry
runDefault(code) ==
    [raised |-> "",
     nodes |-> <<[node |-> "definition_list",
                  children |->
                     <<make_item(CodeKey, code),
                       make_item(MessageKey,
                                 IF code \in DOMAIN problem_infos
                                 THEN problem_infos[code] ELSE <<>>)>>]>>]

\* ProblemSummary.run with self.arguments[0] = code: the returned node list,
\* or the KeyError the lookup problem_infos[code] raises
run(code) ==
    IF code \in DOMAIN problem_infos
    THEN [raised |-> "",
          nodes |-> <<[node |-> "definition_list",
                       children |-> <<make_item(CodeKey, code),
                                      make_item(MessageKey, problem_infos[code])>>]>>]
    ELSE [raised |-> "KeyError", nodes |-> <<>>]

\* ------------------------------------------------------- conf.py: version
\* codecs.BOM_UTF16_LE
BOM_UTF16_LE == <<255, 254>>

\* what a decode that raises UnicodeDecodeError yields here
DecodeError == <<-1>>

StartsWith(b, prefix) ==
    Len(b) >= Len(prefix) /\ SubSeq(b, 1, Len(prefix)) = prefix

\* bytes of the UTF-8 sequence a lead byte opens (0: not a lead byte)
Utf8Width(b0) ==
    IF b0 < 128 THEN 1
    ELSE IF b0 \in 194..223 THEN 2
    ELSE IF b0 \in 224..239 THEN 3
    ELSE IF b0 \in 240..244 THEN 4
    ELSE 0

Utf8Value(b, i, n) ==
    IF n = 1 THEN b[i]
    ELSE IF n = 2 THEN (b[i] - 192) * 64 + (b[i + 1] - 128)
    ELSE IF n = 3 THEN (b[i] - 224) * 4096 + (b[i + 1] - 128) * 64 + (b[i + 2] - 128)
    ELSE (b[i] - 240) * 262144 + (b[i + 1] - 128) * 4096
         + (b[i + 2] - 128) * 64 + (b[i + 3] - 128)

\* the least code point a sequence of n bytes may encode (no overlong forms)
Utf8Least(n) == IF n = 1 THEN 0 ELSE IF n = 2 THEN 128 ELSE IF n = 3 THEN 2048 ELSE 65536

RECURSIVE Utf8From(_, _)
\* bytes.decode('utf-8') of b from position i on
Utf8From(b, i) ==
    IF i > Len(b) THEN <<>>
    ELSE LET n == Utf8Width(b[i])
         IN  IF \/ n = 0
                \/ i + n - 1 > Len(b)
                \/ \E k \in 1..(n - 1) : b[i + k] \notin 128..191
             THEN DecodeError
             ELSE LET cp == Utf8Value(b, i, n)
                      rest == Utf8From(b, i + n)
                  IN  IF \/ cp < Utf8Least(n)
                         \/ cp \in 55296..57343
                         \/ cp > 1114111
                         \/ rest = DecodeError
                      THEN DecodeError
                      ELSE <<cp>> \o rest

DecodeUtf8(b) == Utf8From(b, 1)

RECURSIVE Utf16leFrom(_, _)
\* bytes.decode('utf-16le') of b from position i on: no byte-order mark is
\* interpreted, a U+FEFF in the data stays in the text
Utf16leFrom(b, i) ==
    IF i > Len(b) THEN <<>>
    ELSE IF i + 1 > Len(b) THEN DecodeError
    ELSE LET unit == b[i] + 256 * b[i + 1]
         IN  IF unit \in 55296..56319
             THEN IF i + 3 > Len(b) THEN DecodeError
                  ELSE LET low == b[i + 2] + 256 * b[i + 3]
                           rest == Utf16leFrom(b, i + 4)
                       IN  IF low \notin 56320..57343 \/ rest = DecodeError
                           THEN DecodeError
                           ELSE <<65536 + (unit - 55296) * 1024 + (low - 56320)>> \o rest
             ELSE IF unit \in 56320..57343 THEN DecodeError
             ELSE LET rest == Utf16leFrom(b, i + 2)
                  IN  IF rest = DecodeError THEN DecodeError ELSE <<unit>> \o rest

DecodeUtf16le(b) == Utf16leFrom(b, 1)

\* str.isspace() of one code point
IsSpace(c) ==
    \/ c \in 9..13
    \/ c \in 28..32
    \/ c \in {133, 160, 5760, 8232, 8233, 8239, 8287, 12288}
    \/ c \in 8192..8202

\* str.strip()
strip(s) ==
    LET keep == {i \in 1..Len(s) : ~IsSpace(s[i])}
    IN  IF keep = {} THEN <<>> ELSE SubSeq(s, SetMin(keep), SetMax(keep))

\* the byte-order mark found but not cut off before decoding
decoded_textKeepBom(encoded_text) ==
    IF StartsWith(encoded_text, BOM_UTF16_LE)
    THEN DecodeUtf16le(encoded_text)
    ELSE DecodeUtf8(encoded_text)

\* conf.py lines 91-95: the text decoded from the bytes of VERSION
decoded_text(encoded_text) ==
    IF StartsWith(encoded_text, BOM_UTF16_LE)
    THEN DecodeUtf16le(SubSeq(encoded_text, Len(BOM_UTF16_LE) + 1, Len(encoded_text)))
    ELSE DecodeUtf8(encoded_text)

\* conf.py lines 88-97
LoadVersion ==
    /\ pc = "conf"
    /\ LET text == decoded_text(VERSION)
       IN  IF text = DecodeError
           THEN pc' = "crashed" /\ UNCHANGED version
           ELSE pc' = "import" /\ version' = strip(text)
    /\ UNCHANGED <<VERSION, version_text, listing, files, directive_sites,
                   help_topics, problem_infos, definition, problem_codes,
                   stdout, exit_status, directives, renders>>

\* ------------------------------------ ironplc_problemcode.py: module body
\* lines 14-17
ListTopics ==
    /\ pc = "import"
    /\ help_topics' = compiler_help_topics \cup extension_help_topics
    /\ problem_infos' = EmptyDict
    /\ definition' = 1
    /\ pc' = "open"
    /\ UNCHANGED <<VERSION, version_text, version, listing, files,
                   directive_sites, problem_codes, stdout, exit_status,
                   directives, renders>>

\* lines 28-32: open the next catalog and skip its header; next() on a file
\* without any row raises StopIteration
OpenDefinition ==
    /\ pc = "open"
    /\ definition <= Len(definitions)
    /\ IF Len(files[definitions[definition]]) = 0
       THEN pc' = "crashed" /\ UNCHANGED problem_codes
       ELSE pc' = "rows" /\ problem_codes' = 1
    /\ UNCHANGED <<VERSION, version_text, version, listing, files,
                   directive_sites, help_topics, problem_infos, definition,
                   stdout, exit_status, directives, renders>>

\* the message printed, exit(1) forgotten: the loop goes on to the next row
ProcessRowNoExit ==
    /\ pc = "rows"
    /\ problem_codes < Len(files[definitions[definition]])
    /\ LET row == files[definitions[definition]][problem_codes + 1]
           code == row[1]
       IN  /\ problem_codes' = problem_codes + 1
           /\ IF MissingTopic(code)
              THEN /\ stdout' = Append(stdout, MissingMessage(code))
                   /\ UNCHANGED <<problem_infos, exit_status, pc>>
              ELSE /\ problem_infos' = StoreMessage(problem_infos, code, row[3])
                   /\ UNCHANGED <<stdout, exit_status, pc>>
    /\ UNCHANGED <<VERSION, version_text, version, listing, files,
                   directive_sites, help_topics, definition, directives, renders>>

\* the row stored before its code is checked
ProcessRowStoreFirst ==
    /\ pc = "rows"
    /\ problem_codes < Len(files[definitions[definition]])
    /\ LET row == files[definitions[definition]][problem_codes + 1]
           code == row[1]
       IN  /\ problem_codes' = problem_codes + 1
           /\ problem_infos' = StoreMessage(problem_infos, code, row[3])
           /\ IF MissingTopic(code)
              THEN /\ stdout' = Append(stdout, MissingMessage(code))
                   /\ exit_status' = <<1>>
                   /\ pc' = "exited"
              ELSE UNCHANGED <<stdout, exit_status, pc>>
    /\ UNCHANGED <<VERSION, version_text, version, listing, files,
                   directive_sites, help_topics, definition, directives, renders>>

\* lines 34-39: one iteration of the loop over the rows
ProcessRow ==
    /\ pc = "rows"
    /\ problem_codes < Len(files[definitions[definition]])
    /\ LET row == files[definitions[definition]][problem_codes + 1]
           code == row[1]
       IN  /\ problem_codes' = problem_codes + 1
           /\ IF MissingTopic(code)
              THEN /\ stdout' = Append(stdout, MissingMessage(code))
                   /\ exit_status' = <<1>>
                   /\ pc' = "exited"
                   /\ UNCHANGED problem_infos
              ELSE /\ problem_infos' = StoreMessage(problem_infos, code, row[3])
                   /\ UNCHANGED <<stdout, exit_status, pc>>
    /\ UNCHANGED <<VERSION, version_text, version, listing, files,
                   directive_sites, help_topics, definition, directives, renders>>

\* lines 28-34: the rows of a catalog are exhausted, on to the next catalog
NextDefinition ==
    /\ pc = "rows"
    /\ problem_codes = Len(files[definitions[definition]])
    /\ definition' = definition + 1
    /\ pc' = "open"
    /\ UNCHANGED <<VERSION, version_text, version, listing, files,
                   directive_sites, help_topics, problem_infos, problem_codes,
                   stdout, exit_status, directives, renders>>

\* lines 28, 41-69: the loop over definitions ends; the rest of the module
\* body defines ProblemSummary and setup
FinishImport ==
    /\ pc = "open"
    /\ definition > Len(definitions)
    /\ pc' = "imported"
    /\ UNCHANGED <<VERSION, version_text, version, listing, files,
                   directive_sites, help_topics, problem_infos, definition,
                   problem_codes, stdout, exit_status, directives, renders>>

\* the directive registered while the catalogs are still being read
setupEarly ==
    /\ pc \in {"open", "rows", "imported"}
    /\ "problem-summary" \notin directives
    /\ directives' = directives \cup {"problem-summary"}
    /\ UNCHANGED <<VERSION, version_text, version, listing, files,
                   directive_sites, pc, help_topics, problem_infos, definition,
                   problem_codes, stdout, exit_status, renders>>

\* setup(app), lines 62-69
setup ==
    /\ pc = "imported"
    /\ "problem-summary" \notin directives
    /\ directives' = directives \cup {"problem-summary"}
    /\ UNCHANGED <<VERSION, version_text, version, listing, files,
                   directive_sites, pc, help_topics, problem_infos, definition,
                   problem_codes, stdout, exit_status, renders>>

\* the lookup done with problem_infos.pop(code): the entry is gone afterwards
RenderPop(code) ==
    /\ "problem-summary" \in directives
    /\ Len(renders) < directive_sites
    /\ renders' = Append(renders, [code |-> code, result |-> run(code)])
    /\ problem_infos' = [c \in DOMAIN problem_infos \ {code} |-> problem_infos[c]]
    /\ UNCHANGED <<VERSION, version_text, version, listing, files,
                   directive_sites, pc, help_topics, definition,
                   problem_codes, stdout, exit_status, directives>>

\* one problem-summary directive of the sources: ProblemSummary.run; what it
\* returns or raises is recorded, and later directives are still run
Render(code) ==
    /\ "problem-summary" \in directives
    /\ Len(renders) < directive_sites
    /\ renders' = Append(renders, [code |-> code, result |-> run(code)])
    /\ UNCHANGED <<VERSION, version_text, version, listing, files,
                   directive_sites, pc, help_topics, problem_infos, definition,
                   problem_codes, stdout, exit_status, directives>>

\* a directive argument is any text: the codes of the catalogs, the codes
\* with a help topic, and one code that is in neither
Unlisted == <<"E", "0">>

Arguments ==
    help_topics
    \cup {files[p][i][1] : p \in {CompilerCsv}, i \in 2..Len(files[CompilerCsv])}
    \cup {files[p][i][1] : p \in {ExtensionCsv}, i \in 2..Len(files[ExtensionCsv])}
    \cup {Unlisted}

Next ==
    \/ LoadVersion
    \/ ListTopics
    \/ OpenDefinition
    \/ ProcessRow
    \/ NextDefinition
    \/ FinishImport
    \/ setup
    \/ \E code \in Arguments : Render(code)

\* ------------------------------------------------------------ environment
E1 == <<"E", "1">>

E2 == <<"E", "2">>

\* a code with a dot in it
E1v == <<"E", "1", ".", "v">>

Rst == <<".", "r", "s", "t">>

\* the header line of a problem-codes.csv
HeaderRow ==
    <<<<"C", "o", "d", "e">>, <<"N", "a", "m", "e">>,
      <<"M", "e", "s", "s", "a", "g", "e">>>>

Category == <<"S">>

Messages == {<<"x">>, <<"y">>}

DataRows(codes, messages) == {<<c, Category, m>> : c \in codes, m \in messages}

\* both catalogs: a header row each, and at most n data rows together, every
\* row of three fields (code, category, message) as the catalogs have them
Catalogs(rows, n) ==
    {[p \in {CompilerCsv, ExtensionCsv} |->
        <<HeaderRow>> \o (IF p = CompilerCsv THEN ab[1] ELSE ab[2])] :
     ab \in {x \in SeqUpTo(rows, n) \X SeqUpTo(rows, n) : Len(x[1]) + Len(x[2]) <= n}}

\* both help-topic directories, listed
Listings(names, n) ==
    LET some == {s \in SUBSET names : Cardinality(s) <= n}
    IN  {[d \in {CompilerDir, ExtensionDir} |->
            IF d = CompilerDir THEN ab[1] ELSE ab[2]] : ab \in some \X some}

\* str.encode('utf-8') of one code point
Utf8Of(c) ==
    IF c < 128 THEN <<c>>
    ELSE IF c < 2048 THEN <<192 + (c \div 64), 128 + (c % 64)>>
    ELSE IF c < 65536
         THEN <<224 + (c \div 4096), 128 + ((c \div 64) % 64), 128 + (c % 64)>>
    ELSE <<240 + (c \div 262144), 128 + ((c \div 4096) % 64),
           128 + ((c \div 64) % 64), 128 + (c % 64)>>

\* str.encode('utf-16le') of one code point
Utf16leOf(c) ==
    IF c < 65536 THEN <<c % 256, c \div 256>>
    ELSE LET high == 55296 + ((c - 65536) \div 1024)
             low == 56320 + ((c - 65536) % 1024)
         IN  <<high % 256, high \div 256, low % 256, low \div 256>>

RECURSIVE Encode(_, _)
Encode(text, encoding) ==
    IF text = <<>> THEN <<>>
    ELSE (IF encoding = "utf-8" THEN Utf8Of(Head(text)) ELSE Utf16leOf(Head(text)))
         \o Encode(Tail(text), encoding)

\* the bytes of a VERSION file saved as UTF-8 (no prefix) or, as Windows
\* tools do, as UTF-16LE after a byte-order mark
VersionFile(text, encoding) ==
    IF encoding = "utf-8" THEN Encode(text, encoding)
    ELSE BOM_UTF16_LE \o Encode(text, encoding)

\* '0', space, line feed, e acute, no-break space, euro sign, U+FEFF, an emoji
CodePoints == {48, 32, 10, 233, 160, 8364, 65279, 128512}

Encodings == {"utf-8", "utf-16le"}

InitProcess ==
    /\ pc = "conf"
    /\ version = <<>>
    /\ help_topics = {}
    /\ problem_infos = EmptyDict
    /\ definition = 0
    /\ problem_codes = 0
    /\ stdout = <<>>
    /\ exit_status = <<>>
    /\ directives = {}
    /\ renders = <<>>

\* the registry and its renderer, over all small catalogs and listings
Init ==
    /\ version_text = <<48, 10>>
    /\ VERSION = VersionFile(version_text, "utf-8")
    /\ listing \in Listings({E1 \o Rst, E2 \o Rst}, MaxFiles)
    /\ files \in Catalogs(DataRows({E1, E2}, Messages), MaxRows)
    /\ directive_sites = MaxRenders
    /\ InitProcess

Spec == Init /\ [][Next]_vars

\* the help topics, over file names with no dot, one dot and two dots
InitTopics ==
    /\ version_text = <<48, 10>>
    /\ VERSION = VersionFile(version_text, "utf-8")
    /\ listing \in Listings({E1 \o Rst, E2 \o Rst, E1v \o Rst, E2}, MaxFiles)
    /\ files \in Catalogs(DataRows({E1, E2, E1v}, {<<"x">>}), TopicRows)
    /\ directive_sites = 1
    /\ InitProcess

SpecTopics == InitTopics /\ [][Next]_vars

\* the version loader, over all short texts in both encodings
InitVersion ==
    /\ version_text \in SeqUpTo(CodePoints, MaxLen)
    /\ \E encoding \in Encodings : VERSION = VersionFile(version_text, encoding)
    /\ listing = [d \in {CompilerDir, ExtensionDir} |->
                    IF d = CompilerDir THEN {E1 \o Rst} ELSE {}]
    /\ files \in Catalogs(DataRows({E1, E2}, {<<"x">>}), 1)
    /\ directive_sites = 1
    /\ InitProcess

SpecVersion == InitVersion /\ [][Next]_vars

\* ================================================================= claims
\* the data rows of the catalogs in the order the claims give: the compiler
\* catalog first, the vscode catalog second, each in file order
AllRows == Tail(files[CompilerCsv]) \o Tail(files[ExtensionCsv])

CodesOf(rows) == {rows[i][1] : i \in 1..Len(rows)}

\* the registry that inserting rows in order, the last row of a code winning,
\* leaves
RegistryOf(rows) ==
    [c \in CodesOf(rows) |->
        rows[SetMax({i \in 1..Len(rows) : rows[i][1] = c})][3]]

\* data rows the loop has taken from the catalogs so far
Consumed ==
    IF pc \in {"conf", "import", "crashed"} /\ definition = 0 THEN 0
    ELSE IF definition > Len(definitions) THEN Len(AllRows)
    ELSE (IF definition = 1 THEN 0 ELSE Len(files[CompilerCsv]) - 1)
         + (IF pc = "open" THEN 0 ELSE problem_codes - 1)

\* positions in AllRows of the rows whose code has no help topic
Undocumented == {i \in 1..Len(AllRows) : AllRows[i][1] \notin help_topics}

\* C1: at every point of initialization every key of the registry is a
\* documented topic, and once initialization has completed every code of a
\* data row of either catalog is a documented topic and a key of the registry.
Thm_C1 ==
    /\ DOMAIN problem_infos \subseteq help_topics
    /\ pc = "imported" =>
          \A i \in 1..Len(AllRows) :
              AllRows[i][1] \in help_topics /\ AllRows[i][1] \in DOMAIN problem_infos

Wit_C1 ==
    /\ pc = "imported"
    /\ Len(files[CompilerCsv]) > 1
    /\ Len(files[ExtensionCsv]) > 1
    /\ Cardinality(DOMAIN problem_infos) = 2

\* C2: when some data row has an undocumented code, initialization never
\* completes, never gets past the first such row in processing order, and
\* when it stops there it has printed exactly 'Missing help topic for <code>'
\* for that row's code and exited with status 1, with no directive
\* registered and no render made.
Thm_C2 ==
    /\ Undocumented # {} =>
          /\ pc # "imported"
          /\ Consumed <= SetMin(Undocumented)
          /\ directives = {}
          /\ renders = <<>>
    /\ pc = "exited" =>
          /\ Undocumented # {}
          /\ Consumed = SetMin(Undocumented)
          /\ stdout = <<MissingPrefix \o AllRows[SetMin(Undocumented)][1]>>
          /\ exit_status = <<1>>
          /\ directives = {}
          /\ renders = <<>>
    /\ exit_status # <<>> => pc = "exited"

Wit_C2 ==
    /\ pc = "exited"
    /\ Consumed = 2
    /\ Len(AllRows) = 3
    /\ Len(files[CompilerCsv]) = 2
    /\ AllRows[3][1] \notin help_topics

\* C3 as stated: when initialization aborts on an undocumented code, the
\* registry holds no entry inserted from the rows processed before it.
Orig_C3 == pc = "exited" => DOMAIN problem_infos = {}

\* C3 as amended: when initialization aborts on an undocumented code, the
\* registry holds exactly the entries of the rows processed before the
\* offending row, and nothing ever reads it: no directive is registered and
\* no render is made.
Thm_C3 ==
    pc = "exited" =>
        /\ problem_infos = RegistryOf(SubSeq(AllRows, 1, Consumed - 1))
        /\ directives = {}
        /\ renders = <<>>

Wit_C3 ==
    /\ pc = "exited"
    /\ definition = 2
    /\ Len(files[CompilerCsv]) > 1
    /\ DOMAIN problem_infos # {}

\* C4: the rows are inserted in processing order, compiler catalog first,
\* so that during and after initialization the registry maps each code to
\* the message of the last row carrying it among the rows processed; a code
\* in both catalogs ends with the later catalog's message, and nothing is
\* printed and the process does not exit.
Thm_C4 ==
    /\ pc \in {"open", "rows"} =>
          problem_infos = RegistryOf(SubSeq(AllRows, 1, Consumed))
    /\ pc = "imported" =>
          /\ problem_infos = RegistryOf(AllRows)
          /\ stdout = <<>>
          /\ exit_status = <<>>

Wit_C4 ==
    /\ pc = "imported"
    /\ \E i \in 2..Len(files[CompilerCsv]), j \in 2..Len(files[ExtensionCsv]) :
          /\ files[CompilerCsv][i][1] = files[ExtensionCsv][j][1]
          /\ files[CompilerCsv][i][3] # files[ExtensionCsv][j][3]
          /\ problem_infos[files[ExtensionCsv][j][1]] = files[ExtensionCsv][j][3]

\* C5: a render of a code of the registry returns one definition list of
\* exactly two items: first term 'Code' with the code argument as its
\* definition paragraph, then term 'Message' with the registry's message.
Thm_C5 ==
    \A i \in 1..Len(renders) :
        LET code == renders[i].code
            nodes == renders[i].result.nodes
        IN  code \in DOMAIN problem_infos =>
              /\ renders[i].result.raised = ""
              /\ Len(nodes) = 1
              /\ nodes[1].node = "definition_list"
              /\ Len(nodes[1].children) = 2
              /\ \A k \in 1..2 :
                    LET item == nodes[1].children[k]
                    IN  /\ item.node = "definition_list_item"
                        /\ Len(item.children) = 2
                        /\ item.children[1].node = "term"
                        /\ Len(item.children[1].children) = 1
                        /\ item.children[1].children[1].node = "strong"
                        /\ item.children[1].children[1].text =
                              (IF k = 1 THEN <<"C", "o", "d", "e">>
                               ELSE <<"M", "e", "s", "s", "a", "g", "e">>)
                        /\ item.children[2].node = "definition"
                        /\ Len(item.children[2].children) = 1
                        /\ item.children[2].children[1].node = "paragraph"
                        /\ item.children[2].children[1].text =
                              (IF k = 1 THEN code ELSE problem_infos[code])

Wit_C5 ==
    \E i \in 1..Len(renders) :
        /\ renders[i].code \in DOMAIN problem_infos
        /\ Len(renders[i].result.nodes) = 1
        /\ problem_infos[renders[i].code] = <<"y">>

\* C6: a render only reads the registry: once the directive is registered
\* no step changes the registry or the documented topics or rewrites an
\* earlier render, and any two renders of the same code have the same
\* outcome, whatever was rendered between them.
Thm_C6 ==
    [][/\ "problem-summary" \in directives =>
             /\ problem_infos' = problem_infos
             /\ help_topics' = help_topics
             /\ SubSeq(renders', 1, Len(renders)) = renders
       /\ \A i, j \in 1..Len(renders') :
             renders'[i].code = renders'[j].code =>
                 renders'[i].result = renders'[j].result]_vars

Wit_C6 ==
    /\ Len(renders) = 3
    /\ renders[1].code = renders[3].code
    /\ renders[2].code # renders[1].code
    /\ renders[1].result.raised = ""
    /\ renders[2].result.raised = ""
    /\ renders[3].result = renders[1].result

\* C7: a render of a code that is not in the registry, with or without a
\* help topic of that name, raises the lookup error and returns no node, no
\* list with a default or empty message; and the registry stays what
\* initialization built, without an entry for that code.
Thm_C7 ==
    /\ \A i \in 1..Len(renders) :
          renders[i].code \notin CodesOf(AllRows) =>
              /\ renders[i].result.raised = "KeyError"
              /\ renders[i].result.nodes = <<>>
    /\ directives # {} => problem_infos = RegistryOf(AllRows)

Wit_C7 ==
    \E i \in 1..Len(renders) :
        /\ renders[i].code \in help_topics
        /\ renders[i].code \notin DOMAIN problem_infos
        /\ renders[i].result.raised = "KeyError"
        /\ DOMAIN problem_infos # {}

\* v is t without its leading and trailing whitespace
IsTrimOf(v, t) ==
    \E i \in 1..(Len(t) + 1), j \in 0..Len(t) :
        /\ v = SubSeq(t, i, j)
        /\ \A k \in 1..(i - 1) : IsSpace(t[k])
        /\ \A k \in (j + 1)..Len(t) : IsSpace(t[k])
        /\ v # <<>> => ~IsSpace(v[1]) /\ ~IsSpace(v[Len(v)])

\* C8: for a VERSION file that is the UTF-8 encoding of a text, or the
\* UTF-16LE byte-order mark followed by the UTF-16LE encoding of that text,
\* the loader does not fail and version is the text without its surrounding
\* whitespace, the same in both encodings; the byte-order mark of the file
\* is not part of it.
Thm_C8 ==
    pc # "conf" =>
        /\ pc # "crashed"
        /\ IsTrimOf(version, version_text)
        /\ (\A k \in 1..Len(version_text) : version_text[k] # 65279) =>
              \A k \in 1..Len(version) : version[k] # 65279

Wit_C8 ==
    /\ pc = "imported"
    /\ StartsWith(VERSION, <<255, 254>>)
    /\ Len(version_text) = 3
    /\ version_text[1] = 32
    /\ version_text[3] = 10
    /\ version = <<128512>>

\* C9: initialization is eager and happens once: a directive is registered
\* or a render made only when the loop over the catalogs has ended with
\* every data row validated and inserted; from then on the module body is
\* not run again; and no render of a code of the vscode catalog fails.
Thm_C9 ==
    [][/\ pc = "imported" =>
             /\ pc' = "imported"
             /\ definition' = definition
             /\ problem_codes' = problem_codes
       /\ (directives' # {} \/ renders' # <<>>) =>
             /\ pc' = "imported"
             /\ definition' = Len(definitions) + 1
             /\ \A i \in 1..Len(AllRows) :
                   /\ AllRows[i][1] \in help_topics'
                   /\ AllRows[i][1] \in DOMAIN problem_infos'
             /\ \A i \in 1..Len(renders') :
                   renders'[i].code \in CodesOf(Tail(files[ExtensionCsv])) =>
                       renders'[i].result.raised = ""]_vars

Wit_C9 ==
    /\ Len(renders) > 0
    /\ renders[1].code \in CodesOf(Tail(files[ExtensionCsv]))
    /\ renders[1].code \notin CodesOf(Tail(files[CompilerCsv]))
    /\ Len(files[CompilerCsv]) > 1
    /\ renders[1].result.raised = ""

\* the file name with its extension stripped: what precedes its last dot,
\* leading dots not counting as the start of an extension
StripExtension(v) ==
    LET dots == {i \in 2..Len(v) : v[i] = "." /\ \E k \in 1..(i - 1) : v[k] # "."}
    IN  IF dots = {} THEN v ELSE SubSeq(v, 1, SetMax(dots) - 1)

AllNames == listing[CompilerDir] \cup listing[ExtensionDir]

\* the number of data rows inserted so far
Accepted == IF pc = "exited" THEN Consumed - 1 ELSE Consumed

\* C10 as stated: the documented topics are the names of both directories
\* with their extension stripped, and a row is accepted exactly when its
\* code is such a name.
Orig_C10 ==
    pc \notin {"conf", "import"} =>
        /\ help_topics = {StripExtension(v) : v \in AllNames}
        /\ \A i \in 1..Accepted :
              AllRows[i][1] \in {StripExtension(v) : v \in AllNames}
        /\ pc = "exited" =>
              AllRows[Consumed][1] \notin {StripExtension(v) : v \in AllNames}

\* c is v up to its first dot (all of v when v has no dot)
IsStemOf(c, v) ==
    /\ \A k \in 1..Len(c) : c[k] # "."
    /\ Len(c) <= Len(v)
    /\ SubSeq(v, 1, Len(c)) = c
    /\ Len(v) > Len(c) => v[Len(c) + 1] = "."

Stems ==
    {c \in UNION {{SubSeq(v, 1, k) : k \in 0..Len(v)} : v \in AllNames} :
        \E v \in AllNames : IsStemOf(c, v)}

\* C10 as amended: the documented topics are the names listed in the two
\* directories, each cut at its first dot; a row of either catalog is
\* accepted exactly when its code is such a cut name of either directory.
Thm_C10 ==
    pc \notin {"conf", "import"} =>
        /\ help_topics = Stems
        /\ \A i \in 1..Accepted : \E v \in AllNames : IsStemOf(AllRows[i][1], v)
        /\ pc = "exited" => \A v \in AllNames : ~IsStemOf(AllRows[Consumed][1], v)

Wit_C10 ==
    /\ pc = "imported"
    /\ listing[ExtensionDir] = {}
    /\ listing[CompilerDir] = {<<"E", "1", ".", "v", ".", "r", "s", "t">>}
    /\ Len(files[ExtensionCsv]) = 2
    /\ files[ExtensionCsv][2][1] = <<"E", "1">>
    /\ <<"E", "1">> \in DOMAIN problem_infos

====
